---------------------------- MODULE Spec2Model ----------------------------
(***************************************************************************)
(* A model of the price fetcher (src/prices_fetcher.py) and of the form    *)
(* handlers of the Streamlit application (src/streamlit/app.py,            *)
(* src/streamlit/db_utils.py).                                             *)
(*                                                                         *)
(* Text is modelled at the character level: a Python str is a sequence of  *)
(* one-character strings.  The Hebrew letters of the patterns are written  *)
(* with ASCII names ("he_shin" for shin, ...): a name is one character.    *)
(* A float is modelled as an exact decimal [m |-> mantissa, e |-> digits   *)
(* after the point], kept in lowest terms (no trailing zero).              *)
(***************************************************************************)
EXTENDS Integers, Sequences, FiniteSets, TLC

VARIABLES
    \* ---- _clean_number driver ----
    token,        \* the txt argument of _clean_number
    cleaned,      \* its return value ("pending" before the call)
    \* ---- _extract_price ----
    text,         \* the text argument
    xpc,          \* "loop" | "after" | "done" | "idle"
    pat,          \* index into PRICE_PATTERNS of the next pattern to try
    best,         \* [val, unit, how]: best_val, best_unit, best_how
    cand,         \* the candidate that set best: [pat, raw, unit, stage]
    tried,        \* the patterns re.search was run for, in order
    got,          \* the return value of _extract_price
    \* ---- get_price_for_code ----
    fpc,          \* "loop" | "done" | "raised" | "idle"
    src,          \* index into SOURCES of the next source to request
    requested,    \* the requests made: sequence of [source, outcome, val]
    result,       \* the return value of get_price_for_code
    \* ---- Streamlit session ----
    apc,          \* "run" | "idle"
    session,      \* st.session_state: [products, purposes], "absent" when popped
    db,           \* the tables: [products, purposes, investments]
    outcome       \* what the last form submission showed

vars == <<token, cleaned, text, xpc, pat, best, cand, tried, got,
          fpc, src, requested, result, apc, session, db, outcome>>

\* Python's None, and a str held where None may be held instead
None == [none |-> TRUE]
Str(s) == [s |-> s]
Tag(x) == [tag |-> x]
Pending == [pending |-> TRUE]

--------------------------------------------------------------------------
(* Characters *)

Digits == {"0", "1", "2", "3", "4", "5", "6", "7", "8", "9"}

IsDigit(c) == c \in Digits

\* [0-9\.,]
IsNumChar(c) == c \in Digits \cup {".", ","}

\* \s
IsSpace(c) == c = " "

\* str.lower() on one character
LowerChar(c) ==
    CASE c = "L" -> "l" [] c = "R" -> "r" [] c = "A" -> "a"
      [] c = "N" -> "n" [] c = "I" -> "i" [] c = "S" -> "s"
      [] OTHER -> c

Lower(s) == [i \in 1..Len(s) |-> LowerChar(s[i])]

DigitVal(c) ==
    CASE c = "0" -> 0 [] c = "1" -> 1 [] c = "2" -> 2 [] c = "3" -> 3
      [] c = "4" -> 4 [] c = "5" -> 5 [] c = "6" -> 6 [] c = "7" -> 7
      [] c = "8" -> 8 [] c = "9" -> 9

\* s[i:j] with 1-based inclusive ends
Slice(s, i, j) == IF j < i THEN <<>> ELSE SubSeq(s, i, j)

\* lit occurs in s at position i, exactly
LitAt(s, i, lit) ==
    /\ i >= 1
    /\ i + Len(lit) - 1 <= Len(s)
    /\ \A j \in 1..Len(lit) : s[i + j - 1] = lit[j]

\* lit (given in lower case) occurs in s at position i, ignoring case (re.I)
LitAtI(s, i, lit) ==
    /\ i >= 1
    /\ i + Len(lit) - 1 <= Len(s)
    /\ \A j \in 1..Len(lit) : LowerChar(s[i + j - 1]) = lit[j]

\* lit in s
Contains(s, lit) == \E i \in 1..Len(s) : LitAt(s, i, lit)

\* s.strip()
Strip(s) ==
    IF \A i \in 1..Len(s) : IsSpace(s[i]) THEN <<>>
    ELSE LET a == CHOOSE i \in 1..Len(s) :
                      ~IsSpace(s[i]) /\ \A k \in 1..(i - 1) : IsSpace(s[k])
             b == CHOOSE i \in 1..Len(s) :
                      ~IsSpace(s[i]) /\ \A k \in (i + 1)..Len(s) : IsSpace(s[k])
         IN  SubSeq(s, a, b)

--------------------------------------------------------------------------
(* Decimals: the values float() yields, as exact decimals *)

RECURSIVE Pow10(_)
Pow10(n) == IF n = 0 THEN 1 ELSE 10 * Pow10(n - 1)

RECURSIVE Norm(_)
Norm(v) ==
    IF v.m = 0 THEN [m |-> 0, e |-> 0]
    ELSE IF v.e > 0 /\ v.m % 10 = 0 THEN Norm([m |-> v.m \div 10, e |-> v.e - 1])
    ELSE v

Dec(m, e) == Norm([m |-> m, e |-> e])

RECURSIVE DigitsVal(_)
DigitsVal(ds) ==
    IF ds = <<>> THEN 0
    ELSE 10 * DigitsVal(SubSeq(ds, 1, Len(ds) - 1)) + DigitVal(ds[Len(ds)])

\* x * 0.01
Mul001(v) == Norm([m |-> v.m, e |-> v.e + 2])

\* x >= 10000
AtLeast(v, n) ==
    IF v.m <= 0 THEN FALSE
    ELSE IF v.e > 5 THEN FALSE       \* a mantissa below 2^31 is below n * 10^6
    ELSE v.m >= n * Pow10(v.e)

\* round(x, 6): round half to even on the 7th digit and beyond
Round6(v) ==
    IF v.e <= 6 THEN Norm(v)
    ELSE LET p == Pow10(v.e - 6)
             a == IF v.m < 0 THEN 0 - v.m ELSE v.m
             q == a \div p
             r == a % p
             up == (2 * r > p) \/ (2 * r = p /\ q % 2 = 1)
             n == IF up THEN q + 1 ELSE q
         IN  Norm([m |-> IF v.m < 0 THEN 0 - n ELSE n, e |-> 6])

--------------------------------------------------------------------------
(* _clean_number *)

\* re.sub(r"[^\d\.,\-]", "", s)
KeepNumeric(s) == SelectSeq(s, LAMBDA c : c \in Digits \cup {".", ",", "-"})

RemoveCommas(s) == SelectSeq(s, LAMBDA c : c # ",")

CommasToDots(s) == [i \in 1..Len(s) |-> IF s[i] = "," THEN "." ELSE s[i]]

HasChar(s, c) == \E i \in 1..Len(s) : s[i] = c

ValueError == [raised |-> "ValueError"]

\* float(t) for t over digits, ".", "-": the value, or ValueError
ParseFloat(t) ==
    LET neg  == Len(t) >= 1 /\ t[1] = "-"
        body == IF neg THEN Slice(t, 2, Len(t)) ELSE t
        dots == {i \in 1..Len(body) : body[i] = "."}
        ok   == /\ \A i \in 1..Len(body) : body[i] \in Digits \cup {"."}
                /\ Cardinality(dots) <= 1
                /\ \E i \in 1..Len(body) : body[i] \in Digits
        ds   == SelectSeq(body, LAMBDA c : c \in Digits)
        frac == IF dots = {} THEN 0
                ELSE Len(body) - (CHOOSE i \in dots : TRUE)
        mag  == DigitsVal(ds)
    IN  IF ~ok THEN ValueError
        ELSE Dec(IF neg THEN 0 - mag ELSE mag, frac)

\* a plausible slip: the "only commas" branch (lines 59-60) left out
CleanNoElif(txt) ==
    IF txt = None \/ txt.s = <<>> THEN None
    ELSE LET t0 == KeepNumeric(Strip(txt.s))
             t  == RemoveCommas(t0)
             f  == ParseFloat(t)
         IN  IF f = ValueError THEN None ELSE f

\* txt is None or Str(chars); the bare except turns float's ValueError into None
clean_number(txt) ==
    IF txt = None \/ txt.s = <<>> THEN None
    ELSE LET t0 == KeepNumeric(Strip(txt.s))
             t  == IF HasChar(t0, ",") /\ HasChar(t0, ".") THEN RemoveCommas(t0)
                   ELSE IF HasChar(t0, ",") /\ ~HasChar(t0, ".") THEN CommasToDots(t0)
                   ELSE RemoveCommas(t0)
             f  == ParseFloat(t)
         IN  IF f = ValueError THEN None ELSE f

--------------------------------------------------------------------------
(* The literals of PRICE_PATTERNS and of _is_agorot_unit, in lower case *)

LAST   == <<"l", "a", "s", "t">>
RATE   == <<"r", "a", "t", "e">>
SHAAR  == <<"he_shin", "he_ayin", "he_resh">>
AHARON == <<"he_alef", "he_het", "he_resh", "he_vav", "he_nun">>
AG     == <<"he_alef", "he_gimel">>
OROT   == <<"he_vav", "he_resh", "he_vav", "he_tav">>
AGOROT == <<"a", "g", "o", "r", "o", "t">>
P001   == <<"0", ".", "0", "1">>
NIS    == <<"n", "i", "s">>
NEARBY == <<"n", "e", "a", "r", "b", "y", "-">> \o AGOROT

Min(S) == CHOOSE x \in S : \A y \in S : x <= y
Max(S) == CHOOSE x \in S : \A y \in S : x >= y

\* the position after a greedy \s* that starts at i
SkipWs(t, i) ==
    CHOOSE j \in i..(Len(t) + 1) :
        /\ j = Len(t) + 1 \/ ~IsSpace(t[j])
        /\ \A k \in i..(j - 1) : IsSpace(t[k])

\* the end of the longest [0-9\.,]+ that starts at i
RunEnd(t, i) ==
    CHOOSE j \in i..Len(t) :
        /\ \A k \in i..j : IsNumChar(t[k])
        /\ j = Len(t) \/ ~IsNumChar(t[j + 1])

\* the first digit after position e, Len(t) + 1 when there is none
FirstDigitAfter(t, e) ==
    LET ds == {i \in (e + 1)..Len(t) : IsDigit(t[i])}
    IN  IF ds = {} THEN Len(t) + 1 ELSE Min(ds)

\* Last\s*Rate at s: the position of its last character, 0 when it does not match
LabelEN(t, s) ==
    IF ~LitAtI(t, s, LAST) THEN 0
    ELSE LET q == SkipWs(t, s + Len(LAST))
         IN  IF LitAtI(t, q, RATE) THEN q + Len(RATE) - 1 ELSE 0

\* shaar\s*aharon at s
LabelHE(t, s) ==
    IF ~LitAtI(t, s, SHAAR) THEN 0
    ELSE LET q == SkipWs(t, s + Len(SHAAR))
         IN  IF LitAtI(t, q, AHARON) THEN q + Len(AHARON) - 1 ELSE 0

\* shaar at s (pattern 7)
LabelShaar(t, s) == IF LitAtI(t, s, SHAAR) THEN s + Len(SHAAR) - 1 ELSE 0

\* (?:ag(?:'|orot)?|Agorot|0\.01\s*NIS) at q: the position of its last
\* character, 0 when it does not match
MarkerEndAt(t, q) ==
    IF LitAtI(t, q, AG) THEN
        IF q + 2 <= Len(t) /\ t[q + 2] = "'" THEN q + 2
        ELSE IF LitAtI(t, q + 2, OROT) THEN q + 1 + Len(OROT)
        ELSE q + 1
    ELSE IF LitAtI(t, q, AGOROT) THEN q + Len(AGOROT) - 1
    ELSE IF LitAtI(t, q, P001) THEN
        LET n == SkipWs(t, q + Len(P001))
        IN  IF LitAtI(t, n, NIS) THEN n + Len(NIS) - 1 ELSE 0
    ELSE 0

NoMatch == [nomatch |-> TRUE]

Match(s, e, gs) == [start |-> s, end |-> e, groups |-> gs]

\* label\s*\((.*?)\)\s*([0-9\.,]+) tried at s, the label ending at e
\* (patterns 1 and 4): the lazy group stops at the first ")" that a number
\* follows
UnitBeforeAt(t, s, e) ==
    LET q == SkipWs(t, e + 1)
        closes == {c \in (q + 1)..Len(t) :
                     /\ t[c] = ")"
                     /\ LET n == SkipWs(t, c + 1)
                        IN  n <= Len(t) /\ IsNumChar(t[n])}
        c == Min(closes)
        n == SkipWs(t, c + 1)
        r == RunEnd(t, n)
    IN  IF e = 0 \/ q > Len(t) \/ t[q] # "(" \/ closes = {} THEN NoMatch
        ELSE Match(s, r, <<Slice(t, q + 1, c - 1), Slice(t, n, r)>>)

\* where a number may start after a greedy [^0-9]* that starts at e + 1 and
\* may take at most lim characters: the greedy star prefers the last of them
NumStarts(t, e, lim) ==
    LET d == FirstDigitAfter(t, e)
        hi == Min({d, Len(t), e + 1 + lim})
    IN  {k \in (e + 1)..hi : IsNumChar(t[k])}

\* label[^0-9]*([0-9\.,]+)\s*\((.*?)\) tried at s (patterns 2 and 5)
UnitAfterAt(t, s, e) ==
    LET ks == {k \in NumStarts(t, e, Len(t)) :
                 LET r == RunEnd(t, k)
                     p == SkipWs(t, r + 1)
                 IN  /\ p <= Len(t)
                     /\ t[p] = "("
                     /\ \E c \in (p + 1)..Len(t) : t[c] = ")"}
        k == Max(ks)
        r == RunEnd(t, k)
        p == SkipWs(t, r + 1)
        c == Min({x \in (p + 1)..Len(t) : t[x] = ")"})
    IN  IF e = 0 \/ ks = {} THEN NoMatch
        ELSE Match(s, c, <<Slice(t, k, r), Slice(t, p + 1, c - 1)>>)

\* Last\s*Rate.*?([0-9\.,]+) tried at s (pattern 3): the lazy .*? stops at
\* the first character of a number
LazyNumberAt(t, s, e) ==
    LET ks == {k \in (e + 1)..Len(t) : IsNumChar(t[k])}
        k == Min(ks)
        r == RunEnd(t, k)
    IN  IF e = 0 \/ ks = {} THEN NoMatch
        ELSE Match(s, r, <<Slice(t, k, r)>>)

\* label[^0-9]{0,lim}([0-9\.,]+) tried at s (pattern 6 with no limit,
\* pattern 7 with 12)
GreedyNumberAt(t, s, e, lim) ==
    LET ks == NumStarts(t, e, lim)
        k == Max(ks)
        r == RunEnd(t, k)
    IN  IF e = 0 \/ ks = {} THEN NoMatch
        ELSE Match(s, r, <<Slice(t, k, r)>>)

\* ([0-9\.,]+)\s*(?:marker) tried at s (pattern 8): the number gives back
\* characters until a marker follows
SuffixAt(t, s) ==
    LET js == IF s > Len(t) \/ ~IsNumChar(t[s]) THEN {}
              ELSE {j \in s..RunEnd(t, s) : MarkerEndAt(t, SkipWs(t, j + 1)) > 0}
        j == Max(js)
    IN  IF js = {} THEN NoMatch
        ELSE Match(s, MarkerEndAt(t, SkipWs(t, j + 1)), <<Slice(t, s, j)>>)

LOOSE_GAP == 12

\* pattern k of PRICE_PATTERNS tried at position s
MatchAt(k, t, s) ==
    CASE k = 1 -> UnitBeforeAt(t, s, LabelEN(t, s))
      [] k = 2 -> UnitAfterAt(t, s, LabelEN(t, s))
      [] k = 3 -> LazyNumberAt(t, s, LabelEN(t, s))
      [] k = 4 -> UnitBeforeAt(t, s, LabelHE(t, s))
      [] k = 5 -> UnitAfterAt(t, s, LabelHE(t, s))
      [] k = 6 -> GreedyNumberAt(t, s, LabelHE(t, s), Len(t))
      [] k = 7 -> GreedyNumberAt(t, s, LabelShaar(t, s), LOOSE_GAP)
      [] k = 8 -> SuffixAt(t, s)

NumPatterns == 8

\* re.search(PRICE_PATTERNS[k], text, flags=re.I | re.S): the leftmost match
Search(k, t) ==
    LET ss == {s \in 1..Len(t) : MatchAt(k, t, s) # NoMatch}
    IN  IF ss = {} THEN NoMatch ELSE MatchAt(k, t, Min(ss))

--------------------------------------------------------------------------
(* _is_agorot_unit and the whole-page scan *)

\* u is None or Str(chars)
is_agorot_unit(u) ==
    IF u = None \/ u.s = <<>> THEN FALSE
    ELSE LET st == Strip(u.s)
             s_lower == Lower(st)
         IN  \/ Contains(s_lower, P001)
             \/ Contains(s_lower, AGOROT)
             \/ Contains(st, AG)
             \/ Contains(st, AG \o <<"'">>)
             \/ Contains(st, AG \o OROT)

\* re.search(r"(?:0\.01\s*NIS|Agorot|ag(?:'|orot)?)", text, flags=re.I)
GlobalAgorot(t) == \E q \in 1..Len(t) : MarkerEndAt(t, q) > 0

--------------------------------------------------------------------------
(* _extract_price *)

WINDOW == 250
HEURISTIC_MIN == 10000

\* the first group _clean_number accepts, 0 when there is none (lines 90-94)
NumGroup(gs) ==
    LET ok == {i \in 1..Len(gs) : clean_number(Str(gs[i])) # None}
    IN  IF ok = {} THEN 0 ELSE Min(ok)

\* the first group that is not the number (lines 96-97).  The code compares
\* by identity; a group equal to the number but distinct from it is a unit
\* candidate all the same.
UnitGroup(gs, n) ==
    LET others == {i \in 1..Len(gs) : i # n}
    IN  IF others = {} THEN None ELSE Str(gs[Min(others)])

\* text[wstart:wend] of lines 108-111
WindowOf(t, m) ==
    LET wstart == IF m.start - 1 - WINDOW > 0 THEN m.start - 1 - WINDOW ELSE 0
        wend   == IF m.end + WINDOW < Len(t) THEN m.end + WINDOW ELSE Len(t)
    IN  Slice(t, wstart + 1, wend)

NoBest == [val |-> None, unit |-> None, how |-> None]
NoCand == [pat |-> 0]

\* the candidate kept without the break of line 125
KeepCandidateNoBreak(k, seen, val, unit0, explicit, nearby) ==
    IF explicit \/ (nearby /\ is_agorot_unit(Str(NEARBY)))
    THEN [seen EXCEPT !.best = [val |-> Mul001(val), unit |-> Tag("agorot"),
                                how |-> Tag("unit-detected")],
                      !.cand = [pat |-> k, raw |-> val, unit |-> unit0,
                                stage |-> IF explicit THEN "explicit" ELSE "nearby"]]
    ELSE [seen EXCEPT !.best = [val |-> val, unit |-> None, how |-> Tag("no-unit")],
                      !.cand = [pat |-> k, raw |-> val, unit |-> unit0,
                                stage |-> "undetected"]]

\* lines 115-130: keep the candidate in best, and stop the loop when its unit
\* is a minor unit.  cand records the candidate kept: its pattern, its parsed
\* number, its captured unit fragment and which unit test was positive.
KeepCandidate(k, seen, val, unit0, explicit, nearby) ==
    IF explicit \/ (nearby /\ is_agorot_unit(Str(NEARBY)))
    THEN [seen EXCEPT !.best = [val |-> Mul001(val), unit |-> Tag("agorot"),
                                how |-> Tag("unit-detected")],
                      !.cand = [pat |-> k, raw |-> val, unit |-> unit0,
                                stage |-> IF explicit THEN "explicit" ELSE "nearby"],
                      !.brk = TRUE]
    ELSE [seen EXCEPT !.best = [val |-> val, unit |-> None, how |-> Tag("no-unit")],
                      !.cand = [pat |-> k, raw |-> val, unit |-> unit0,
                                stage |-> "undetected"]]

\* lines 106-113: the window is scanned when the captured unit is no minor
\* unit; a positive scan makes the unit "nearby-agorot"
ScanWindow(t, k, seen, m, val, unit0, explicit) ==
    KeepCandidate(k, seen, val, unit0, explicit,
                  ~explicit /\ is_agorot_unit(Str(WindowOf(t, m))))

\* a number that does not parse ends the page with nothing, instead of the
\* continue of line 104
ParseNumberAborts(t, k, seen, m, val, unit0) ==
    IF val = None THEN [seen EXCEPT !.best = NoBest, !.cand = NoCand, !.brk = TRUE]
    ELSE ScanWindow(t, k, seen, m, val, unit0, is_agorot_unit(unit0))

\* lines 102-104: no candidate when the number does not parse
ParseNumber(t, k, seen, m, val, unit0) ==
    IF val = None THEN seen
    ELSE ScanWindow(t, k, seen, m, val, unit0, is_agorot_unit(unit0))

\* lines 84-100: the number is group n, or group 1 when no group parses
PickGroups(t, k, seen, m, n) ==
    ParseNumber(t, k, seen, m,
                clean_number(Str(IF n = 0 THEN m.groups[1] ELSE m.groups[n])),
                UnitGroup(m.groups, n))

\* lines 79-81
OnMatch(t, k, seen, m) ==
    IF m = NoMatch THEN seen ELSE PickGroups(t, k, seen, m, NumGroup(m.groups))

\* One pass of the loop body (lines 79-130) for pattern k.
\* st = [best, cand, tried, brk]
LoopBody(t, k, st) == OnMatch(t, k, [st EXCEPT !.tried = Append(@, k)], Search(k, t))

LoopStart == [best |-> NoBest, cand |-> NoCand, tried |-> <<>>, brk |-> FALSE]

\* the for loop of line 78 from pattern k on
RECURSIVE LoopFrom(_, _, _)
LoopFrom(t, k, st) ==
    IF k > NumPatterns \/ st.brk THEN st
    ELSE LoopFrom(t, k + 1, LoopBody(t, k, st))

\* the return without the magnitude test of lines 141-142
FinishNoHeuristic(t, b) ==
    IF b.val = None THEN None
    ELSE IF b.unit = None /\ GlobalAgorot(t)
         THEN [price |-> Round6(Mul001(b.val)), how |-> "unit:global-agorot"]
    ELSE [price |-> Round6(b.val),
          how |-> IF b.unit # None THEN "unit:agorot" ELSE "no-unit"]

\* lines 132-144: what is returned for the best candidate
Finish(t, b) ==
    IF b.val = None THEN None
    ELSE IF b.unit = None /\ GlobalAgorot(t)
         THEN [price |-> Round6(Mul001(b.val)), how |-> "unit:global-agorot"]
    ELSE IF AtLeast(b.val, HEURISTIC_MIN)
         THEN [price |-> Round6(Mul001(b.val)), how |-> "heuristic"]
    ELSE [price |-> Round6(b.val),
          how |-> IF b.unit # None THEN "unit:agorot" ELSE "no-unit"]

extract_price(t) == Finish(t, LoopFrom(t, 1, LoopStart).best)

--------------------------------------------------------------------------
(* The inputs of the model *)

Idle == [idle |-> TRUE]

\* page text is a run of at most MaxFrags of these fragments
MaxFrags == 4
PadLen == 250

LabelLastRate    == <<"L", "a", "s", "t", " ", "R", "a", "t", "e", " ">>
LabelShaarAharon == SHAAR \o <<" ">> \o AHARON \o <<" ">>
UnitMinor        == <<"(", "0", ".", "0", "1", " ", "N", "I", "S", ")", " ">>
UnitMajor        == <<"(", "N", "I", "S", ")", " ">>
Num436_20        == <<"4", "3", "6", ".", "2", "0", " ">>
Num45_30         == <<"4", "5", ".", "3", "0", " ">>
Num436200        == <<"4", "3", "6", "2", "0", "0", " ">>
Num1000000       == <<"1", "0", "0", "0", "0", "0", "0", " ">>
Num10_01         == <<"1", "0", ".", "0", "1", " ">>
LoneDot          == <<".", " ">>
WordAgorot       == <<"A", "g", "o", "r", "o", "t", " ">>
Padding          == [i \in 1..PadLen |-> "x"]

NumberFragments == {Num436_20, Num45_30, Num436200, Num1000000, Num10_01}

Fragments ==
    {LabelLastRate, LabelShaarAharon, UnitMinor, UnitMajor, LoneDot, WordAgorot, Padding}
    \cup NumberFragments

RECURSIVE Concat(_)
Concat(fs) == IF fs = <<>> THEN <<>> ELSE Head(fs) \o Concat(Tail(fs))

Texts == {Concat(fs) : fs \in UNION {[1..n -> Fragments] : n \in 0..MaxFrags}}

\* the tokens _clean_number is tried on: every string of at most MaxTokLen
\* of these characters, and the tokens the documentation names
MaxTokLen == 5
TokenChars == {"1", "5", ".", ",", "-", "a", " "}

NamedTokens == {
    <<"1", ",", "2", "3", "4", ".", "5", "6">>,
    <<"1", "2", "3", "4", ",", "5", "6">>,
    <<"a", "b", "c">>,
    <<"1", ".", "2", "3", "4", ".", "5", "6", "7">> }

Tokens == {None} \cup {Str(t) : t \in NamedTokens
                  \cup UNION {[1..n -> TokenChars] : n \in 0..MaxTokLen}}

--------------------------------------------------------------------------
(* _clean_number, called on one token *)

CleanIdle ==
    /\ token = Idle
    /\ cleaned = Idle

CleanInit ==
    /\ token \in Tokens
    /\ cleaned = Pending

CallClean ==
    /\ cleaned = Pending
    /\ cleaned' = clean_number(token)
    /\ UNCHANGED token

--------------------------------------------------------------------------
(* _extract_price, one pattern of the loop at a time *)

ExtractIdle ==
    /\ text = <<>>
    /\ xpc = "idle"
    /\ pat = 0
    /\ best = Idle
    /\ cand = Idle
    /\ tried = <<>>
    /\ got = Idle

ExtractInit ==
    /\ text \in Texts
    /\ xpc = "loop"
    /\ pat = 1
    /\ best = NoBest
    /\ cand = NoCand
    /\ tried = <<>>
    /\ got = Pending

\* one pass of the for loop (lines 78-130), the break included
TryPattern ==
    /\ xpc = "loop"
    /\ \E st \in {LoopBody(text, pat, [best |-> best, cand |-> cand,
                                       tried |-> tried, brk |-> FALSE])} :
          /\ best' = st.best
          /\ cand' = st.cand
          /\ tried' = st.tried
          /\ pat' = pat + 1
          /\ xpc' = IF st.brk \/ pat = NumPatterns THEN "after" ELSE "loop"
    /\ UNCHANGED <<text, got>>

\* lines 132-144
Return ==
    /\ xpc = "after"
    /\ got' = Finish(text, best)
    /\ xpc' = "done"
    /\ UNCHANGED <<text, pat, best, cand, tried>>

--------------------------------------------------------------------------
(* fetch_price_from_source and get_price_for_code *)

SOURCES == <<"TASE EN major", "TASE HE major", "TASE EN graph",
             "TheMarker", "Funder ETF", "Bizportal ETF">>

HTTP_OK == 200

\* A fetched body is a run of at most MaxNodes nodes: text the reducer keeps
\* ("text") or the content of a script element, which it drops ("script")
MaxNodes == 2

Nodes == {"priced", "zero", "plain", "script"}

\* the node of each name: its kind and its content
Node(n) ==
    CASE n = "priced" -> [kind |-> "text",   s |-> LabelLastRate \o UnitMinor \o Num436_20]
      [] n = "zero"   -> [kind |-> "text",   s |-> LabelLastRate \o <<"0">>]
      [] n = "plain"  -> [kind |-> "text",   s |-> <<"x">>]
      [] n = "script" -> [kind |-> "script", s |-> LabelLastRate \o Num45_30]

Bodies == UNION {[1..n -> Nodes] : n \in 1..MaxNodes}

OpenTag(kind) ==
    IF kind = "script" THEN <<"<", "s", "c", "r", "i", "p", "t", ">">>
    ELSE <<"<", "p", ">">>

CloseTag(kind) ==
    IF kind = "script" THEN <<"<", "/", "s", "c", "r", "i", "p", "t", ">">>
    ELSE <<"<", "/", "p", ">">>

\* r.text: the markup as sent
RECURSIVE Markup(_)
Markup(body) ==
    IF body = <<>> THEN <<>>
    ELSE OpenTag(Node(Head(body)).kind) \o Node(Head(body)).s
         \o CloseTag(Node(Head(body)).kind) \o Markup(Tail(body))

\* BeautifulSoup(r.text, "html.parser").get_text(" ", strip=True): the
\* stripped, non-empty strings of the kept nodes, joined by one space
RECURSIVE JoinText(_)
JoinText(ns) ==
    IF ns = <<>> THEN <<>>
    ELSE IF Len(ns) = 1 THEN Strip(Node(Head(ns)).s)
    ELSE Strip(Node(Head(ns)).s) \o <<" ">> \o JoinText(Tail(ns))

get_text(body) ==
    JoinText(SelectSeq(body, LAMBDA n : Node(n).kind = "text" /\ Strip(Node(n).s) # <<>>))

\* what requests.get does for one request: it raises, or it returns a
\* response with a status and a body
Statuses == {HTTP_OK, 404}
Raises == {"ConnectionError", "Timeout"}

Responses ==
    {[raises |-> c] : c \in Raises}
    \cup {[status |-> st, body |-> <<>>] : st \in Statuses \ {HTTP_OK}}
    \cup {[status |-> HTTP_OK, body |-> b] : b \in Bodies}

\* the classes "except requests.RequestException" catches
RequestExceptions == {"RequestException", "ConnectionError", "Timeout", "HTTPError"}

\* a narrower except clause, "except requests.Timeout"
CaughtTimeoutOnly(cls) == cls = "Timeout"

Caught(cls) == cls \in RequestExceptions

\* an "or" on the price instead of on the result: a price of 0 sends the
\* search to the markup as well
FirstOrOnPrice(first, body) ==
    IF first # None /\ first.price # Dec(0, 0) THEN [got |-> first, on |-> "text"]
    ELSE [got |-> extract_price(Markup(body)), on |-> "markup"]

\* line 155: the visible text first, the markup only when that gave nothing
FirstOr(first, body) ==
    IF first # None THEN [got |-> first, on |-> "text"]
    ELSE [got |-> extract_price(Markup(body)), on |-> "markup"]

ExtractFromPage(body) == FirstOr(extract_price(get_text(body)), body)

\* line 155 for every body of the model, computed once
PageOutcomes == {[body |-> b, outcome |-> ExtractFromPage(b)] : b \in Bodies}

PageOutcome(body) == (CHOOSE p \in PageOutcomes : p.body = body).outcome

\* lines 156-159
OnPage(x) ==
    IF x.got # None
    THEN [val |-> x.got.price, info |-> [how |-> x.got.how, on |-> x.on]]
    ELSE [val |-> None, info |-> [failed |-> "pattern not found"]]

\* fetch_price_from_source for one response: [val, info], or the exception
\* that leaves it
fetch_price_from_source(resp) ==
    IF "raises" \in DOMAIN resp THEN
        IF Caught(resp.raises) THEN [val |-> None, info |-> [failed |-> resp.raises]]
        ELSE [escaped |-> resp.raises]
    ELSE IF resp.status # HTTP_OK THEN [val |-> None, info |-> [http |-> resp.status]]
    ELSE OnPage(PageOutcome(resp.body))

FetchIdle ==
    /\ fpc = "idle"
    /\ src = 0
    /\ requested = <<>>
    /\ result = Idle

FetchInit ==
    /\ fpc = "loop"
    /\ src = 1
    /\ requested = <<>>
    /\ result = Pending

\* the loop without its return: a price is noted and the next source is
\* requested all the same
DeliverNoReturn(r, resp) ==
    IF "escaped" \in DOMAIN r
    THEN /\ requested' = Append(requested, [source |-> src, val |-> None,
                                            info |-> [escaped |-> r.escaped],
                                            resp |-> resp])
         /\ fpc' = "raised"
         /\ UNCHANGED <<src, result>>
    ELSE /\ requested' = Append(requested, [source |-> src, val |-> r.val,
                                            info |-> r.info, resp |-> resp])
         /\ result' = IF r.val # None THEN r.val ELSE result
         /\ src' = src + 1
         /\ UNCHANGED fpc

\* lines 168-170 for the outcome r of fetch_price_from_source on the response
\* resp, which is kept with the request
Deliver(r, resp) ==
    IF "escaped" \in DOMAIN r
    THEN /\ requested' = Append(requested, [source |-> src, val |-> None,
                                            info |-> [escaped |-> r.escaped],
                                            resp |-> resp])
         /\ fpc' = "raised"
         /\ UNCHANGED <<src, result>>
    ELSE /\ requested' = Append(requested, [source |-> src, val |-> r.val,
                                            info |-> r.info, resp |-> resp])
         /\ IF r.val # None
            THEN /\ result' = r.val
                 /\ fpc' = "done"
                 /\ UNCHANGED src
            ELSE /\ src' = src + 1
                 /\ UNCHANGED <<fpc, result>>

\* one pass of the loop of get_price_for_code (lines 166-170) for the
\* response resp of SOURCES[src]
RequestSource(resp) ==
    /\ fpc = "loop"
    /\ src <= Len(SOURCES)
    /\ Deliver(fetch_price_from_source(resp), resp)

\* the request raises
RequestFails ==
    /\ \E resp \in Responses : "raises" \in DOMAIN resp /\ RequestSource(resp)

\* the request is answered
RequestAnswered ==
    /\ \E resp \in Responses : "status" \in DOMAIN resp /\ RequestSource(resp)

\* line 171
ReturnNone ==
    /\ fpc = "loop"
    /\ src > Len(SOURCES)
    /\ result' = None
    /\ fpc' = "done"
    /\ UNCHANGED <<src, requested>>

--------------------------------------------------------------------------
(* The Streamlit application: one action is one run of the script, main()  *)
(* and the page it shows, for one submission of the page's form            *)

\* Python values that are compared with == and in: a str and a tuple
PyStr(x) == [str |-> x]
PyTuple(xs) == [tuple |-> xs]

PyList(xs) == [list |-> xs]

\* x in xs, for a list xs
In(x, xs) == \E i \in 1..Len(xs.list) : xs.list[i] = x

\* "not x" for a str, an int or a float held in a text or number input
Falsy(x) == x = PyStr("") \/ x = None \/ x = [num |-> 0]

Num(n) == [num |-> n]

Absent == [absent |-> TRUE]

NameOrder == <<"Bonds", "Index fund">>
Names == {NameOrder[i] : i \in 1..Len(NameOrder)}
TypeNames == {"", "ETF"}
TaseNumbers == {"", "1183441"}
Amounts == {0, 100}
UnitCounts == {1, 2}

\* the tables hold at most MaxRows rows each
MaxRows == 3

\* SELECT ... ORDER BY name: the rows of the table, by name
RECURSIVE OrderedBy(_, _)
OrderedBy(rows, k) ==
    IF k > Len(NameOrder) THEN <<>>
    ELSE SelectSeq(rows, LAMBDA r : r.name = NameOrder[k]) \o OrderedBy(rows, k + 1)

\* get_products: a list of (product, current unit value) tuples
get_products(d) ==
    LET rows == OrderedBy(d.products, 1)
    IN  PyList([i \in 1..Len(rows) |->
                    PyTuple(<<PyStr(rows[i].name), Num(rows[i].value)>>)])

\* get_purposes: a list of (purpose, needed amount) tuples
get_purposes(d) ==
    LET rows == OrderedBy(d.purposes, 1)
    IN  PyList([i \in 1..Len(rows) |->
                    PyTuple(<<PyStr(rows[i].name), Num(rows[i].amount)>>)])

\* lines 46-49 of main: the lists are loaded when the session has none
Loaded(ss, d) ==
    [products |-> IF ss.products = Absent THEN get_products(d) ELSE ss.products,
     purposes |-> IF ss.purposes = Absent THEN get_purposes(d) ELSE ss.purposes]

\* [p[0] for p in products]
NamesOf(xs) == [i \in 1..Len(xs.list) |-> xs.list[i].tuple[1]]

Ok == [ok |-> TRUE]
Raise(msg) == [error |-> msg]

validate_investment(ss, date, product, units, buying_value, purpose) ==
    IF Falsy(date) THEN Raise("Missing date")
    ELSE IF Falsy(product) THEN Raise("Missing product")
    ELSE IF Falsy(units) THEN Raise("Missing units")
    ELSE IF Falsy(buying_value) THEN Raise("Missing buying_value")
    ELSE IF Falsy(purpose) THEN Raise("Missing purpose")
    ELSE IF ~In(product, ss.products) THEN Raise("Product does not exist")
    ELSE IF ~In(purpose, ss.purposes) THEN Raise("Purpose does not exist")
    ELSE Ok

validate_product(ss, product, type_, tase_number) ==
    IF Falsy(product) THEN Raise("Missing product")
    ELSE IF Falsy(type_) THEN Raise("Missing type_")
    ELSE IF Falsy(tase_number) THEN Raise("Missing tase_number")
    ELSE IF In(product, ss.products) THEN Raise("Product already exist")
    ELSE Ok

validate_purpose(ss, purpose, needed_amount) ==
    IF Falsy(purpose) THEN Raise("Missing purpose name")
    ELSE IF Falsy(needed_amount) THEN Raise("Missing needed_amount")
    ELSE IF In(purpose, ss.purposes) THEN Raise("Purpose already exist")
    ELSE Ok

insert_investment(d, product, units, buying_value, purpose) ==
    [d EXCEPT !.investments =
        Append(@, [product |-> product.str, units |-> units.num,
                   value |-> buying_value.num, purpose |-> purpose.str])]

insert_product(d, product, type_, tase_number) ==
    [d EXCEPT !.products =
        Append(@, [name |-> product.str, value |-> 0, type |-> type_.str,
                   tase |-> tase_number.str])]

insert_purpose(d, purpose, needed_amount) ==
    [d EXCEPT !.purposes = Append(@, [name |-> purpose.str, amount |-> needed_amount.num])]

\* what a run showed: the page, the form's input, the names the session held
\* when the form was validated, the message and the rows the run inserted
Shown(page, input, ss, msg, n) ==
    [page |-> page, input |-> input,
     products |-> NamesOf(ss.products), purposes |-> NamesOf(ss.purposes),
     shown |-> msg, inserted |-> n]

AppIdle ==
    /\ apc = "idle"
    /\ session = Idle
    /\ db = Idle
    /\ outcome = Idle

\* the names of tables whose names are unique, as a database filled through
\* valid forms is
UniqueNames ==
    {<<>>} \cup {<<n>> : n \in Names}
           \cup {<<p[1], p[2]>> : p \in {q \in Names \X Names : q[1] # q[2]}}

ProductRow(n) == [name |-> n, value |-> 0, type |-> "ETF", tase |-> "1183441"]
PurposeRow(n) == [name |-> n, amount |-> 100]

AppInit ==
    /\ apc = "run"
    /\ session = [products |-> Absent, purposes |-> Absent]
    /\ db \in {[products |-> ps, purposes |-> us, investments |-> <<>>] :
                 ps \in {[i \in 1..Len(ns) |-> ProductRow(ns[i])] : ns \in UniqueNames},
                 us \in {[i \in 1..Len(ns) |-> PurposeRow(ns[i])] : ns \in UniqueNames}}
    /\ outcome = [page |-> "none"]

\* record_transaction_page with no product or no purpose to choose from
\* (lines 97-106): a warning and no form
RecordNothingToChoose ==
    /\ apc = "run"
    /\ LET ss == Loaded(session, db)
       IN  /\ ss.products.list = <<>> \/ ss.purposes.list = <<>>
           /\ session' = ss
           /\ outcome' = Shown("record", None, ss, "warning", 0)
    /\ UNCHANGED <<apc, db>>

\* record_transaction_page, the form submitted (lines 108-142)
RecordTransaction ==
    /\ apc = "run"
    /\ LET ss == Loaded(session, db)
           product_names == NamesOf(ss.products)
           purpose_names == NamesOf(ss.purposes)
       IN  /\ ss.products.list # <<>> /\ ss.purposes.list # <<>>
           /\ session' = ss
           /\ \E product \in {product_names[i] : i \in 1..Len(product_names)} \cup {None},
                 purpose \in {purpose_names[i] : i \in 1..Len(purpose_names)} \cup {None},
                 units \in {Num(n) : n \in UnitCounts},
                 buying_value \in {Num(n) : n \in Amounts} :
                LET input == [product |-> product, purpose |-> purpose,
                              units |-> units, value |-> buying_value]
                    v == validate_investment(ss, PyStr("date"), product, units,
                                             buying_value, purpose)
                IN  IF v = Ok /\ Len(db.investments) < MaxRows
                    THEN /\ db' = insert_investment(db, product, units, buying_value, purpose)
                         /\ outcome' = Shown("record", input, ss, "success", 1)
                    ELSE /\ v # Ok
                         /\ db' = db
                         /\ outcome' = Shown("record", input, ss, v.error, 0)
    /\ UNCHANGED apc

\* add_product_page, the form submitted (lines 155-179)
AddProduct ==
    /\ apc = "run"
    /\ LET ss == Loaded(session, db)
       IN  \E product_name \in {PyStr(n) : n \in Names \cup {""}},
              type_ \in {PyStr(n) : n \in TypeNames},
              tase_number \in {PyStr(n) : n \in TaseNumbers} :
             LET input == [name |-> product_name, type |-> type_, tase |-> tase_number]
                 v == validate_product(ss, product_name, type_, tase_number)
             IN  IF v = Ok
                 THEN /\ Len(db.products) < MaxRows
                      /\ db' = insert_product(db, product_name, type_, tase_number)
                      /\ session' = [ss EXCEPT !.products = Absent]
                      /\ outcome' = Shown("product", input, ss, "success", 1)
                 ELSE /\ db' = db
                      /\ session' = ss
                      /\ outcome' = Shown("product", input, ss, v.error, 0)
    /\ UNCHANGED apc

\* add_purpose_page, the form submitted (lines 190-212)
AddPurpose ==
    /\ apc = "run"
    /\ LET ss == Loaded(session, db)
       IN  \E purpose_name \in {PyStr(n) : n \in Names \cup {""}},
              needed_amount \in {Num(n) : n \in Amounts} :
             LET input == [name |-> purpose_name, amount |-> needed_amount]
                 v == validate_purpose(ss, purpose_name, needed_amount)
             IN  IF v = Ok
                 THEN /\ Len(db.purposes) < MaxRows
                      /\ db' = insert_purpose(db, purpose_name, needed_amount)
                      /\ session' = [ss EXCEPT !.purposes = Absent]
                      /\ outcome' = Shown("purpose", input, ss, "success", 1)
                 ELSE /\ db' = db
                      /\ session' = ss
                      /\ outcome' = Shown("purpose", input, ss, v.error, 0)
    /\ UNCHANGED apc

--------------------------------------------------------------------------
(* Specifications *)

\* get_price_for_code for one security code
Init == CleanIdle /\ ExtractIdle /\ FetchInit /\ AppIdle

Next ==
    \/ RequestFails /\ UNCHANGED <<token, cleaned, text, xpc, pat, best, cand, tried, got,
                                   apc, session, db, outcome>>
    \/ RequestAnswered /\ UNCHANGED <<token, cleaned, text, xpc, pat, best, cand, tried, got,
                                      apc, session, db, outcome>>
    \/ ReturnNone /\ UNCHANGED <<token, cleaned, text, xpc, pat, best, cand, tried, got,
                                 apc, session, db, outcome>>

Spec == Init /\ [][Next]_vars

\* _extract_price on one page text
InitExtract == CleanIdle /\ ExtractInit /\ FetchIdle /\ AppIdle

NextExtract ==
    \/ TryPattern /\ UNCHANGED <<token, cleaned, fpc, src, requested, result,
                                 apc, session, db, outcome>>
    \/ Return /\ UNCHANGED <<token, cleaned, fpc, src, requested, result,
                             apc, session, db, outcome>>

SpecExtract == InitExtract /\ [][NextExtract]_vars

\* _clean_number on one token
InitClean == CleanInit /\ ExtractIdle /\ FetchIdle /\ AppIdle

NextClean ==
    CallClean /\ UNCHANGED <<text, xpc, pat, best, cand, tried, got,
                             fpc, src, requested, result, apc, session, db, outcome>>

SpecClean == InitClean /\ [][NextClean]_vars

\* one session of the Streamlit application
InitApp == CleanIdle /\ ExtractIdle /\ FetchIdle /\ AppInit

NextApp ==
    \/ RecordNothingToChoose /\ UNCHANGED <<token, cleaned, text, xpc, pat, best, cand,
                                            tried, got, fpc, src, requested, result>>
    \/ RecordTransaction /\ UNCHANGED <<token, cleaned, text, xpc, pat, best, cand,
                                        tried, got, fpc, src, requested, result>>
    \/ AddProduct /\ UNCHANGED <<token, cleaned, text, xpc, pat, best, cand,
                                 tried, got, fpc, src, requested, result>>
    \/ AddPurpose /\ UNCHANGED <<token, cleaned, text, xpc, pat, best, cand,
                                 tried, got, fpc, src, requested, result>>

SpecApp == InitApp /\ [][NextApp]_vars

--------------------------------------------------------------------------
(* Claims about get_price_for_code (Spec) *)

Failed(i) == requested[i].val = None

\* C1: the sources are requested in the order of SOURCES, each at most once;
\* no source is requested after one that yielded a price; and the value
\* returned is the price of the first source that yielded one.
C1_FirstPriceWins ==
    /\ \A i \in 1..Len(requested) : requested[i].source = i
    /\ \A i \in 1..(Len(requested) - 1) : Failed(i)
    /\ fpc = "done" /\ (\E i \in 1..Len(requested) : ~Failed(i))
          => result = requested[Len(requested)].val
    /\ fpc = "done" => Len(requested) <= Len(SOURCES)

\* C1, its case: the first source answers 404, the second yields a price,
\* which is returned with no third request made
C1_Witness ==
    /\ fpc = "done"
    /\ Len(requested) = 2
    /\ requested[1].info = [http |-> 404]
    /\ requested[2].info = [how |-> "unit:agorot", on |-> "text"]
    /\ result = requested[2].val

\* C2: no failure of a source leaves fetch_price_from_source or
\* get_price_for_code as an exception; after a failure the loop is at the
\* next source; and when every source failed the value returned is None,
\* all the sources having been requested.
C2_FailuresAreSoft ==
    /\ fpc # "raised"
    /\ \A i \in 1..Len(requested) : "escaped" \notin DOMAIN requested[i].info
    /\ fpc = "loop" => src = Len(requested) + 1
    /\ fpc = "done" /\ (\A i \in 1..Len(requested) : Failed(i))
          => result = None /\ Len(requested) = Len(SOURCES)

\* C2, its case: every kind of failure met in one call, which returns None
C2_Witness ==
    /\ fpc = "done"
    /\ result = None
    /\ \E i \in 1..Len(requested) : requested[i].info = [failed |-> "ConnectionError"]
    /\ \E i \in 1..Len(requested) : requested[i].info = [failed |-> "Timeout"]
    /\ \E i \in 1..Len(requested) : requested[i].info = [http |-> 404]
    /\ \E i \in 1..Len(requested) : requested[i].info = [failed |-> "pattern not found"]

--------------------------------------------------------------------------
(* Claims about _extract_price (SpecExtract) *)

Returned == xpc = "done" /\ got # None

\* the number a fragment spells
NumberOf(frag) == clean_number(Str(frag))

\* C3: for the text "Last Rate (0.01 NIS) N" the number N is the candidate
\* and the parenthesised fragment its unit, so that the price returned is
\* round(N * 0.01, 6), by the explicit unit.
C3_UnitBeforeNumber ==
    \A n \in NumberFragments :
        xpc = "done" /\ text = LabelLastRate \o UnitMinor \o n
            => /\ got # None
               /\ cand.raw = NumberOf(n)
               /\ cand.stage = "explicit"
               /\ got.price = Round6(Mul001(NumberOf(n)))

\* the patterns that give a candidate on text t: they match and their number
\* parses
CandidatePatterns(t) ==
    {k \in 1..NumPatterns : LoopBody(t, k, LoopStart).cand # NoCand}

\* C4: the number returned is the number of the earliest pattern that
\* matches the text and whose number parses.
C4_EarliestPatternWins ==
    Returned =>
        cand.raw = LoopBody(text, Min(CandidatePatterns(text)), LoopStart).cand.raw

\* C5: the price returned is round(raw * s, 6) with s = 1 or s = 0.01, raw
\* being the parsed number of the candidate returned.
C5_ScaledAtMostOnce ==
    Returned => got.price \in {Round6(cand.raw), Round6(Mul001(cand.raw))}

NoEvidence ==
    /\ cand.stage = "undetected"
    /\ ~GlobalAgorot(text)

FirstPositiveStage ==
    IF cand.stage = "explicit" THEN "explicit-adjacent"
    ELSE IF cand.stage = "nearby" THEN "nearby-window"
    ELSE IF GlobalAgorot(text) THEN "global-page"
    ELSE IF AtLeast(cand.raw, HEURISTIC_MIN) THEN "magnitude-heuristic"
    ELSE "none"

\* the stage a tag of the code stands for; "unit:agorot" is the tag a unit
\* captured with the number gets
StageOfTag(how) ==
    CASE how = "unit:agorot" -> "explicit-adjacent"
      [] how = "unit:global-agorot" -> "global-page"
      [] how = "heuristic" -> "magnitude-heuristic"
      [] how = "no-unit" -> "none"

\* C8: the tag returned with a price names the first positive stage of the
\* cascade, each stage having a tag of its own.
C8_TagNamesFirstStage ==
    Returned => StageOfTag(got.how) = FirstPositiveStage

--------------------------------------------------------------------------
(* Claims about _clean_number (SpecClean) *)

\* an optional "-", then digits with at most one "." among them
IsDecimal(s) ==
    LET body == IF Len(s) >= 1 /\ s[1] = "-" THEN Tail(s) ELSE s
    IN  /\ \A i \in 1..Len(body) : body[i] \in Digits \cup {"."}
        /\ Cardinality({i \in 1..Len(body) : body[i] = "."}) <= 1
        /\ \E i \in 1..Len(body) : body[i] \in Digits

\* the value of a decimal: its digits as an integer, over ten to the number
\* of characters after the "."
DecimalValue(s) ==
    LET mag  == DigitsVal(SelectSeq(s, LAMBDA c : c \in Digits))
        dot  == {i \in 1..Len(s) : s[i] = "."}
        frac == IF dot = {} THEN 0 ELSE Len(s) - Max(dot)
    IN  Dec(IF s[1] = "-" THEN 0 - mag ELSE mag, frac)

\* the documented rule, a character at a time: what is not a digit, ".", ","
\* or "-" is dropped; a "," is dropped next to a "." and is a "." without one
DocumentedClean(tok) ==
    IF tok = None THEN None
    ELSE LET kept == SelectSeq(tok.s, LAMBDA c : IsDigit(c) \/ c \in {".", ",", "-"})
             both == "." \in {kept[i] : i \in 1..Len(kept)}
                        /\ "," \in {kept[i] : i \in 1..Len(kept)}
             form == IF both THEN SelectSeq(kept, LAMBDA c : c # ",")
                     ELSE [i \in 1..Len(kept) |-> IF kept[i] = "," THEN "." ELSE kept[i]]
         IN  IF IsDecimal(form) THEN DecimalValue(form) ELSE None

\* C7: _clean_number computes the documented rule for every token and never
\* raises; "1,234.56" and "1234,56" give 1234.56, and "abc", "1.234.567" and
\* the empty token give None.
C7_CleanNumberRule ==
    cleaned # Pending =>
        /\ cleaned = DocumentedClean(token)
        /\ cleaned # ValueError
        /\ token = Str(<<"1", ",", "2", "3", "4", ".", "5", "6">>) => cleaned = Dec(123456, 2)
        /\ token = Str(<<"1", "2", "3", "4", ",", "5", "6">>) => cleaned = Dec(123456, 2)
        /\ token = Str(<<"a", "b", "c">>) => cleaned = None
        /\ token = Str(<<"1", ".", "2", "3", "4", ".", "5", "6", "7">>) => cleaned = None
        /\ token = Str(<<>>) => cleaned = None

\* C7, its case: a token with a comma and no dot, the comma read as the
\* decimal point
C7_Witness ==
    /\ token = Str(<<"1", "2", "3", "4", ",", "5", "6">>)
    /\ cleaned = Dec(123456, 2)

--------------------------------------------------------------------------
(* Claims about the Streamlit application (SpecApp) *)

\* name is one of names, a list of str
Among(name, names) == \E i \in 1..Len(names) : names[i] = name

\* the run was a submission of the form of the page
Submitted(page) ==
    /\ outcome.page = page
    /\ outcome.input # None

\* C9: on the Record Transaction page a submission with a date, units >= 1,
\* a non-zero purchase value and a product and a purpose that are among the
\* loaded names passes validation and inserts exactly one row, and "Product
\* does not exist" / "Purpose does not exist" are shown only for a name that
\* is not among the loaded names.
C9_ValidTransactionInserted ==
    Submitted("record") =>
        /\ ( /\ outcome.input.units.num >= 1
             /\ outcome.input.value.num # 0
             /\ Among(outcome.input.product, outcome.products)
             /\ Among(outcome.input.purpose, outcome.purposes) )
              => outcome.shown = "success" /\ outcome.inserted = 1
        /\ outcome.shown = "Product does not exist"
              => ~Among(outcome.input.product, outcome.products)
        /\ outcome.shown = "Purpose does not exist"
              => ~Among(outcome.input.purpose, outcome.purposes)

\* C10: a complete Add Product (Add Purpose) submission whose name is the
\* name of a loaded product (purpose) is rejected with the "already exist"
\* error and inserts no row.
C10_DuplicateNameRejected ==
    /\ ( /\ Submitted("product")
         /\ ~Falsy(outcome.input.type) /\ ~Falsy(outcome.input.tase)
         /\ Among(outcome.input.name, outcome.products) )
          => outcome.shown = "Product already exist" /\ outcome.inserted = 0
    /\ ( /\ Submitted("purpose")
         /\ ~Falsy(outcome.input.amount)
         /\ Among(outcome.input.name, outcome.purposes) )
          => outcome.shown = "Purpose already exist" /\ outcome.inserted = 0

--------------------------------------------------------------------------
(* Claims about the loop of _extract_price (SpecExtract) *)

\* a candidate whose captured unit fragment holds a minor-unit marker
ExplicitCandidate ==
    /\ cand # NoCand
    /\ cand.stage = "explicit"

\* C11: once a pattern yields a candidate whose captured unit fragment holds
\* a minor-unit marker, no later pattern is evaluated, and the price returned
\* is computed from that candidate's number alone.
C11_ExplicitUnitEndsLoop ==
    ExplicitCandidate =>
        /\ is_agorot_unit(cand.unit)
        /\ xpc # "loop"
        /\ tried = [i \in 1..cand.pat |-> i]
        /\ xpc = "done" =>
              /\ got # None
              /\ got.price = IF AtLeast(Mul001(cand.raw), HEURISTIC_MIN)
                             THEN Round6(Mul001(Mul001(cand.raw)))
                             ELSE Round6(Mul001(cand.raw))

\* C11, its case: "Last Rate 45.30 (0.01 NIS)" gives its candidate at the
\* second pattern; the third, which matches the text too, is not evaluated
C11_Witness ==
    /\ xpc = "done"
    /\ ExplicitCandidate
    /\ text = LabelLastRate \o Num45_30 \o UnitMinor
    /\ cand.pat = 2
    /\ tried = <<1, 2>>
    /\ Search(3, text) # NoMatch
    /\ got = [price |-> Dec(453, 3), how |-> "unit:agorot"]

\* pattern k matches text t and none of its groups is a number
MatchWithoutNumber(k, t) ==
    /\ Search(k, t) # NoMatch
    /\ \A i \in 1..Len(Search(k, t).groups) :
          clean_number(Str(Search(k, t).groups[i])) = None

\* C12: a pattern that matches the text while none of its groups normalises
\* to a number gives no candidate and does not end the page: the candidate
\* kept so far stays as it is and the next pattern of the list is evaluated.
C12_NoNumberNoCandidate ==
    [][ xpc = "loop" /\ MatchWithoutNumber(pat, text) =>
            /\ best' = best
            /\ cand' = cand
            /\ tried' = Append(tried, pat)
            /\ pat' = pat + 1
            /\ xpc' = IF pat = NumPatterns THEN "after" ELSE "loop"
            /\ text' = text /\ got' = got ]_vars

\* C12, its case: in "Last Rate 45.30 <shaar aharon> ." pattern 6 matches
\* with "." for its number; the candidate of pattern 3 is returned
C12_Witness ==
    /\ xpc = "done"
    /\ text = LabelLastRate \o Num45_30 \o LabelShaarAharon \o LoneDot
    /\ MatchWithoutNumber(6, text)
    /\ tried = <<1, 2, 3, 4, 5, 6, 7, 8>>
    /\ cand.pat = 3
    /\ got = [price |-> Dec(453, 1), how |-> "no-unit"]

\* C13: the marker test of the unit fragment and of the window
\* (_is_agorot_unit) is positive on a text exactly when the marker test of
\* the whole-page scan is, and the digits "0.01" of a price with no currency
\* word are a marker for none of them: "Last Rate 10.01" is returned as 10.01.
C13_SameMarkersAtEveryStage ==
    xpc = "done" =>
        /\ is_agorot_unit(Str(text)) <=> GlobalAgorot(text)
        /\ text = LabelLastRate \o Num10_01
              => got = [price |-> Dec(1001, 2), how |-> "no-unit"]

--------------------------------------------------------------------------
(* Claims about one fetched page (Spec) *)

\* the request answered last, when its status is a success
LastPage == requested[Len(requested)]

PageAnswered ==
    /\ requested # <<>>
    /\ "status" \in DOMAIN LastPage.resp
    /\ LastPage.resp.status = HTTP_OK

\* what the patterns give on the visible text and on the markup of each body
PageResults ==
    {[body |-> b, visible |-> extract_price(get_text(b)),
      markup |-> extract_price(Markup(b))] : b \in Bodies}

\* the same for the page answered last
OnVisibleText == (CHOOSE p \in PageResults : p.body = LastPage.resp.body).visible
OnMarkup == (CHOOSE p \in PageResults : p.body = LastPage.resp.body).markup

\* C14: for a page fetched with a success status, a price found on the
\* visible text, a price of 0 included, is the page's result and the markup
\* plays no part; the result comes from the markup exactly when the visible
\* text gives no price.
C14_MarkupOnlyAfterVisibleText ==
    PageAnswered =>
        \A visible \in {OnVisibleText} :
            IF visible # None
            THEN /\ LastPage.val = visible.price
                 /\ LastPage.info = [how |-> visible.how, on |-> "text"]
            ELSE \A markup \in {OnMarkup} :
                    IF markup # None
                    THEN /\ LastPage.val = markup.price
                         /\ LastPage.info = [how |-> markup.how, on |-> "markup"]
                    ELSE /\ LastPage.val = None
                         /\ LastPage.info = [failed |-> "pattern not found"]

\* C14, its case: the visible text gives the price 0 while the markup, with
\* its script, would give 45.3; 0 is the result
C14_Witness ==
    /\ fpc = "done"
    /\ PageAnswered
    /\ LastPage.resp.body = <<"script", "zero">>
    /\ OnVisibleText = [price |-> Dec(0, 0), how |-> "no-unit"]
    /\ OnMarkup # None /\ OnMarkup.price = Dec(453, 1)
    /\ LastPage.info = [how |-> "no-unit", on |-> "text"]
    /\ result = Dec(0, 0)

==========================================================================
